---- MODULE Spec2Model ----
(***************************************************************************)
(* Keyboard focus navigation across containers of focusable elements       *)
(* (src/src/useKeyboardNavigation.ts).                                     *)
(*                                                                         *)
(* The page is a fixed document of container nodes; the hook is configured *)
(* with a sequence of container handles into that document and a bundle of *)
(* options.  KeyDown is one dispatch of a keydown event to handleEvents,   *)
(* followed by React applying the queued state update and subscribing the  *)
(* handler of the new render, so that every event is handled with the      *)
(* current Container Index.  HostFocus is the host moving focus by other   *)
(* means between two events.                                               *)
(*                                                                         *)
(* Spec hands handleEvents the resolved containers and the current index   *)
(* on every event.  HookSpec models the hook around it: each render makes  *)
(* a new containers array and, when its dependencies changed, a new        *)
(* handler closure; the effects fill the array and swap the keydown        *)
(* listener.  React renders and runs the effects of a state update made    *)
(* in a keydown listener before the next event is dispatched.              *)
(*                                                                         *)
(* Conventions.  Strings that the code inspects character by character     *)
(* (class names) are sequences of one-character strings.  A query          *)
(* expression "t1,t2,..." is the sequence of its comma-separated parts.    *)
(* The Container Index is 0-based as in the code; TLA+ sequences are       *)
(* 1-based, so every array read goes through At.                           *)
(***************************************************************************)
EXTENDS Integers, Sequences, FiniteSets, TLC

VARIABLES
    containers,      \* Element[] handed to handleEvents (node names, "null")
    options,         \* the Options bundle
    containerIndex,  \* React state created by useState(0)
    activeElement,   \* document.activeElement after the last dispatch
    event,           \* the last dispatched KeyboardEvent: [key, shiftKey]
    before,          \* containerIndex and document.activeElement when it was dispatched
    effects,         \* host effects of the last dispatch, in call order
    setCalls,        \* setContainerIndex calls of the last dispatch (forwardDirection each)
    route,           \* where handleEvents went: "empty", "ignored", "throw",
                     \* "switch", "updown"; "idle" when nothing was dispatched
    hook             \* the component using the hook: its container argument,
                     \* its memoized eventHandler, the keydown listeners on window

vars == <<containers, options, containerIndex, activeElement, event, before,
          effects, setCalls, route, hook>>

-----------------------------------------------------------------------------
(* Bounds *)

MaxContainers == 3

-----------------------------------------------------------------------------
(* Strings as character sequences *)

Empty == <<>>

SELECTED_CLASSNAME == <<"s", "e", "l", "e", "c", "t", "e", "d">>

Unselected == <<"u", "n">> \o SELECTED_CLASSNAME

Current == <<"o", "n">>

Item == <<"i", "t", "e", "m">>

\* String.prototype.includes: t occurs in s as a contiguous substring
Includes(s, t) ==
    \E i \in 0..(Len(s) - Len(t)) : SubSeq(s, i + 1, i + Len(t)) = t

\* DOMTokenList of a className: its maximal runs of non-space characters
ClassList(s) ==
    { SubSeq(s, i, j) : <<i, j>> \in
        { p \in (1..Len(s)) \X (1..Len(s)) :
            /\ p[1] <= p[2]
            /\ \A k \in p[1]..p[2] : s[k] # " "
            /\ (p[1] = 1 \/ s[p[1] - 1] = " ")
            /\ (p[2] = Len(s) \/ s[p[2] + 1] = " ") } }

-----------------------------------------------------------------------------
(* The document *)

Node(tag, className) == [tag |-> tag, className |-> className]

\* Three container nodes.  Anchors carry an href; no node carries a tabindex.
Page ==
    [ nav   |-> << Node("a", Empty), Node("button", Unselected),
                   Node("a", SELECTED_CLASSNAME) >>,
      menu  |-> << Node("button", Empty),
                   Node("button", Item \o << " " >> \o Current) >>,
      plain |-> << Node("div", Empty) >> ]

NodeNames == DOMAIN Page

Null == "null"                \* parseContainer found no element
UndefinedContainer == "undefined"

Handle(node, pos) == [node |-> node, pos |-> pos]

Undefined == Handle("undefined", 0)     \* an absent element
Body == Handle("body", 0)               \* focus rests outside every container

AllElements == UNION { { Handle(n, p) : p \in 1..Len(Page[n]) } : n \in NodeNames }

DomNode(h) == Page[h.node][h.pos]

-----------------------------------------------------------------------------
(* Array reads *)

\* JavaScript arr[i] with a 0-based index: undefined outside the array
At(arr, i, undef) == IF i + 1 \in 1..Len(arr) THEN arr[i + 1] ELSE undef

\* Array.prototype.findIndex by identity: 0-based, -1 when absent
FindIndex(arr, x) ==
    IF \E i \in 1..Len(arr) : arr[i] = x
    THEN (CHOOSE i \in 1..Len(arr) : arr[i] = x /\ \A j \in 1..(i - 1) : arr[j] # x) - 1
    ELSE -1

-----------------------------------------------------------------------------
(* Selector Resolver and Element Query *)

allSelectors ==
    << "a", "button", "[href]", "input", "select", "textarea",
       "[tabindex]:not([tabindex=\"-1\"])" >>

\* options.selectors: absent, one token, or an array of tokens
NoSelectors == [kind |-> "undefined", tokens |-> <<>>]
Scalar(token) == [kind |-> "string", tokens |-> <<token>>]
Array(tokens) == [kind |-> "array", tokens |-> tokens]

\* An array is joined with commas, a string passes through unchanged; either
\* way the expression is the list of its comma-separated parts.
parseSelectors(unParsedSelectors) == unParsedSelectors.tokens

\* Element.matches for one simple selector of the vocabulary
Matches(h, token) ==
    CASE token = "[href]" -> DomNode(h).tag = "a"
      [] token = "[tabindex]:not([tabindex=\"-1\"])" -> FALSE
      [] OTHER -> DomNode(h).tag = token

\* container.querySelectorAll(selectors): the matching descendants in document order
getFocusableElements(container, selectors) ==
    SelectSeq([p \in 1..Len(Page[container]) |-> Handle(container, p)],
              LAMBDA h : \E i \in 1..Len(selectors) : Matches(h, selectors[i]))

-----------------------------------------------------------------------------
(* Selection Memory *)

\* options.selectedClassName: absent, or a string
NoClassName == [defined |-> FALSE, value |-> Empty]
ClassName(value) == [defined |-> TRUE, value |-> value]

\* The first element whose className string includes the marker, else elements[0]
checkForPreviouslyFocusedElement(elements, selectedClassName) ==
    LET marker == IF selectedClassName.defined THEN selectedClassName.value
                  ELSE SELECTED_CLASSNAME
        found == { i \in 1..Len(elements) :
                     Includes(DomNode(elements[i]).className, marker) }
    IN  IF found # {}
        THEN elements[CHOOSE i \in found : \A j \in found : i <= j]
        ELSE At(elements, 0, Undefined)

-----------------------------------------------------------------------------
(* Focus Actuator *)

Effect(op, element) == [op |-> op, element |-> element]

\* options.autoSelect: absent, a boolean, or an object keyed by container index
NoAutoSelect == [kind |-> "undefined", bool |-> FALSE, map |-> <<>>]
AutoSelectBoolean(b) == [kind |-> "boolean", bool |-> b, map |-> <<>>]
AutoSelectObject(m) == [kind |-> "object", bool |-> FALSE, map |-> m]

\* focusElement without the branch for a boolean autoSelect
focusElementObjectOnly(element, index, autoSelect) ==
    IF element = Undefined
    THEN <<>>
    ELSE LET select ==
                 /\ autoSelect.kind = "object"
                 /\ index \in DOMAIN autoSelect.map
                 /\ autoSelect.map[index]
         IN  << Effect("focus", element) >>
             \o (IF select THEN << Effect("click", element) >> ELSE <<>>)
             \o << Effect("preventDefault", Undefined) >>

\* focusElement taking any autoSelect object as true, whatever its entries
focusElementAnyObject(element, index, autoSelect) ==
    IF element = Undefined
    THEN <<>>
    ELSE LET select ==
                 \/ autoSelect.kind = "boolean" /\ autoSelect.bool
                 \/ autoSelect.kind = "object"
         IN  << Effect("focus", element) >>
             \o (IF select THEN << Effect("click", element) >> ELSE <<>>)
             \o << Effect("preventDefault", Undefined) >>

\* focusElement suppressing the default before it clicks
focusElementSuppressFirst(element, index, autoSelect) ==
    IF element = Undefined
    THEN <<>>
    ELSE LET select ==
                 \/ autoSelect.kind = "boolean" /\ autoSelect.bool
                 \/ /\ autoSelect.kind = "object"
                    /\ index \in DOMAIN autoSelect.map
                    /\ autoSelect.map[index]
         IN  << Effect("focus", element), Effect("preventDefault", Undefined) >>
             \o (IF select THEN << Effect("click", element) >> ELSE <<>>)

\* The effects of focusElement(element, event, containerIndex, autoSelect)
focusElement(element, index, autoSelect) ==
    IF element = Undefined
    THEN <<>>
    ELSE LET select ==
                 \/ autoSelect.kind = "boolean" /\ autoSelect.bool
                 \/ /\ autoSelect.kind = "object"
                    /\ index \in DOMAIN autoSelect.map
                    /\ autoSelect.map[index]
         IN  << Effect("focus", element) >>
             \o (IF select THEN << Effect("click", element) >> ELSE <<>>)
             \o << Effect("preventDefault", Undefined) >>

-----------------------------------------------------------------------------
(* Inter-Container Navigator *)

Outcome(routeName, effectSeq, setSeq) ==
    [route |-> routeName, effects |-> effectSeq, setCalls |-> setSeq]

\* The updater with its two directions exchanged
setContainerIndexSwapped(forwardDirection, prev) ==
    IF forwardDirection THEN prev - 1 ELSE prev + 1

\* The updater handed to setContainerIndex: (prev) => forwardDirection ? prev + 1 : prev - 1
setContainerIndex(forwardDirection, prev) ==
    IF forwardDirection THEN prev + 1 ELSE prev - 1

\* moveToContainer clicking the element it focuses
moveToContainerClicking(container, forwardDirection, selectors, selectedClassName) ==
    IF container \in {Null, UndefinedContainer}
    THEN Outcome("switch", <<>>, <<>>)
    ELSE LET configured == getFocusableElements(container, selectors)
             containerElements ==
                 IF Len(configured) = 0
                 THEN getFocusableElements(container, parseSelectors(Array(allSelectors)))
                 ELSE configured
             elementToSelect ==
                 checkForPreviouslyFocusedElement(containerElements, selectedClassName)
         IN  IF Len(containerElements) = 0 \/ elementToSelect = Undefined
             THEN Outcome("switch", <<>>, <<>>)
             ELSE Outcome("switch",
                          << Effect("preventDefault", Undefined),
                             Effect("focus", elementToSelect),
                             Effect("click", elementToSelect) >>,
                          << forwardDirection >>)

\* moveToContainer updating the index before it knows an element can be focused
moveToContainerEagerUpdate(container, forwardDirection, selectors, selectedClassName) ==
    IF container \in {Null, UndefinedContainer}
    THEN Outcome("switch", <<>>, <<>>)
    ELSE LET configured == getFocusableElements(container, selectors)
             containerElements ==
                 IF Len(configured) = 0
                 THEN getFocusableElements(container, parseSelectors(Array(allSelectors)))
                 ELSE configured
             elementToSelect ==
                 checkForPreviouslyFocusedElement(containerElements, selectedClassName)
         IN  IF Len(containerElements) = 0 \/ elementToSelect = Undefined
             THEN Outcome("switch", <<>>, << forwardDirection >>)
             ELSE Outcome("switch",
                          << Effect("preventDefault", Undefined),
                             Effect("focus", elementToSelect) >>,
                          << forwardDirection >>)

\* moveToContainer without the second query for every known kind
moveToContainerNoFallback(container, forwardDirection, selectors, selectedClassName) ==
    IF container \in {Null, UndefinedContainer}
    THEN Outcome("switch", <<>>, <<>>)
    ELSE LET containerElements == getFocusableElements(container, selectors)
             elementToSelect ==
                 checkForPreviouslyFocusedElement(containerElements, selectedClassName)
         IN  IF Len(containerElements) = 0 \/ elementToSelect = Undefined
             THEN Outcome("switch", <<>>, <<>>)
             ELSE Outcome("switch",
                          << Effect("preventDefault", Undefined),
                             Effect("focus", elementToSelect) >>,
                          << forwardDirection >>)

\* moveToContainer focusing the element without updating the index
moveToContainerKeepingIndex(container, forwardDirection, selectors, selectedClassName) ==
    IF container \in {Null, UndefinedContainer}
    THEN Outcome("switch", <<>>, <<>>)
    ELSE LET configured == getFocusableElements(container, selectors)
             containerElements ==
                 IF Len(configured) = 0
                 THEN getFocusableElements(container, parseSelectors(Array(allSelectors)))
                 ELSE configured
             elementToSelect ==
                 checkForPreviouslyFocusedElement(containerElements, selectedClassName)
         IN  IF Len(containerElements) = 0 \/ elementToSelect = Undefined
             THEN Outcome("switch", <<>>, <<>>)
             ELSE Outcome("switch",
                          << Effect("preventDefault", Undefined),
                             Effect("focus", elementToSelect) >>,
                          <<>>)

moveToContainer(container, forwardDirection, selectors, selectedClassName) ==
    IF container \in {Null, UndefinedContainer}
    THEN Outcome("switch", <<>>, <<>>)
    ELSE LET configured == getFocusableElements(container, selectors)
             containerElements ==
                 IF Len(configured) = 0
                 THEN getFocusableElements(container, parseSelectors(Array(allSelectors)))
                 ELSE configured
             elementToSelect ==
                 checkForPreviouslyFocusedElement(containerElements, selectedClassName)
         IN  IF Len(containerElements) = 0 \/ elementToSelect = Undefined
             THEN Outcome("switch", <<>>, <<>>)
             ELSE Outcome("switch",
                          << Effect("preventDefault", Undefined),
                             Effect("focus", elementToSelect) >>,
                          << forwardDirection >>)

\* handleSwitchContainer wrapping around at either end of the sequence
handleSwitchContainerWrapping(ev, cs, index, selectors, selectedClassName) ==
    IF (ev.key = "Tab" /\ ev.shiftKey) \/ ev.key = "ArrowLeft"
    THEN moveToContainer(At(cs, (index - 1) % Len(cs), UndefinedContainer),
                         FALSE, selectors, selectedClassName)
    ELSE IF ev.key \in {"Tab", "ArrowRight"}
    THEN moveToContainer(At(cs, (index + 1) % Len(cs), UndefinedContainer),
                         TRUE, selectors, selectedClassName)
    ELSE Outcome("switch", <<>>, <<>>)

handleSwitchContainer(ev, cs, index, selectors, selectedClassName) ==
    IF (ev.key = "Tab" /\ ev.shiftKey) \/ ev.key = "ArrowLeft"
    THEN moveToContainer(
             IF index > 0 THEN At(cs, index - 1, UndefinedContainer)
             ELSE UndefinedContainer,
             FALSE, selectors, selectedClassName)
    ELSE IF ev.key \in {"Tab", "ArrowRight"}
    THEN moveToContainer(
             IF index < Len(cs) - 1 THEN At(cs, index + 1, UndefinedContainer)
             ELSE UndefinedContainer,
             TRUE, selectors, selectedClassName)
    ELSE Outcome("switch", <<>>, <<>>)

-----------------------------------------------------------------------------
(* Intra-Container Navigator *)

\* handleUpDown wrapping around at either end of the element sequence
handleUpDownWrapping(ev, active, elements, index, autoSelect) ==
    LET currentIndex == FindIndex(elements, active)
        n == Len(elements)
        nextElement ==
            IF n = 0 THEN Undefined
            ELSE IF ev.key = "ArrowUp"
            THEN At(elements, (currentIndex - 1) % n, Undefined)
            ELSE IF ev.key = "ArrowDown"
            THEN At(elements, (currentIndex + 1) % n, Undefined)
            ELSE Undefined
    IN  Outcome("updown", focusElement(nextElement, index, autoSelect), <<>>)

\* handleUpDown returning early when the focused element is not in the sequence
handleUpDownStrict(ev, active, elements, index, autoSelect) ==
    LET currentIndex == FindIndex(elements, active)
        nextElement ==
            IF currentIndex = -1 THEN Undefined
            ELSE IF ev.key = "ArrowUp" THEN At(elements, currentIndex - 1, Undefined)
            ELSE IF ev.key = "ArrowDown" THEN At(elements, currentIndex + 1, Undefined)
            ELSE Undefined
    IN  Outcome("updown", focusElement(nextElement, index, autoSelect), <<>>)

\* handleUpDown taking every key other than ArrowDown for ArrowUp
handleUpDownElse(ev, active, elements, index, autoSelect) ==
    LET currentIndex == FindIndex(elements, active)
        nextElement ==
            IF ev.key = "ArrowDown" THEN At(elements, currentIndex + 1, Undefined)
            ELSE At(elements, currentIndex - 1, Undefined)
    IN  Outcome("updown", focusElement(nextElement, index, autoSelect), <<>>)

handleUpDown(ev, active, elements, index, autoSelect) ==
    LET currentIndex == FindIndex(elements, active)
        nextElement ==
            IF ev.key = "ArrowUp" THEN At(elements, currentIndex - 1, Undefined)
            ELSE IF ev.key = "ArrowDown" THEN At(elements, currentIndex + 1, Undefined)
            ELSE Undefined
    IN  Outcome("updown", focusElement(nextElement, index, autoSelect), <<>>)

-----------------------------------------------------------------------------
(* Dispatch Core *)

RecognizedKeys == {"ArrowUp", "ArrowDown", "Tab", "ArrowLeft", "ArrowRight"}

\* JavaScript truthiness of options.selectors
Truthy(selectors) ==
    \/ selectors.kind = "array"
    \/ selectors.kind = "string" /\ selectors.tokens # << "" >>

\* The routing with Tab switching containers only when Shift is held
dispatchShiftedTabOnly(ev, cs, index, opts, active) ==
    LET container == At(cs, index, UndefinedContainer)
        parsedSelectors ==
            parseSelectors(IF Truthy(opts.selectors) THEN opts.selectors
                           ELSE Array(allSelectors))
    IN  IF container \in {Null, UndefinedContainer}
        THEN Outcome("throw", <<>>, <<>>)
        ELSE IF /\ Len(cs) > 1
                /\ \/ ev.key = "Tab" /\ ev.shiftKey /\ opts.tabKeyContainerLevel
                   \/ ev.key \in {"ArrowLeft", "ArrowRight"}
        THEN handleSwitchContainer(ev, cs, index, parsedSelectors,
                                   opts.selectedClassName)
        ELSE handleUpDown(ev, active,
                          getFocusableElements(container, parsedSelectors),
                          index, opts.autoSelect)

\* handleEvents past its two guards (lines 222-251)
dispatch(ev, cs, index, opts, active) ==
    LET container == At(cs, index, UndefinedContainer)
        parsedSelectors ==
            parseSelectors(IF Truthy(opts.selectors) THEN opts.selectors
                           ELSE Array(allSelectors))
    IN  IF container \in {Null, UndefinedContainer}
        THEN Outcome("throw", <<>>, <<>>)    \* TypeError: container.querySelectorAll
        ELSE IF /\ Len(cs) > 1
                /\ \/ ev.key = "Tab" /\ opts.tabKeyContainerLevel
                   \/ ev.key \in {"ArrowLeft", "ArrowRight"}
        THEN handleSwitchContainer(ev, cs, index, parsedSelectors,
                                   opts.selectedClassName)
        ELSE handleUpDown(ev, active,
                          getFocusableElements(container, parsedSelectors),
                          index, opts.autoSelect)

\* handleEvents suppressing the default action before it looks at the event
handleEventsSuppressingFirst(ev, cs, index, opts, active) ==
    LET r == dispatch(ev, cs, index, opts, active)
    IN  Outcome(r.route, << Effect("preventDefault", Undefined) >> \o r.effects,
                r.setCalls)

handleEvents(ev, cs, index, opts, active) ==
    IF Len(cs) = 0
    THEN Outcome("empty", <<>>, <<>>)
    ELSE IF ev.key \notin RecognizedKeys
    THEN Outcome("ignored", <<>>, <<>>)
    ELSE dispatch(ev, cs, index, opts, active)

-----------------------------------------------------------------------------
(* Configurations and events *)

\* What the binding effect leaves in the containers array: nothing; one
\* container, resolved or not; or several, of which the first resolved.
ContainerSequences ==
    { cs \in UNION { [1..n -> NodeNames \cup {Null}] : n \in 0..MaxContainers } :
        /\ \A i, j \in 1..Len(cs) : (i # j /\ cs[i] = cs[j]) => cs[i] = Null
        /\ Len(cs) > 1 => cs[1] # Null }

OptionBundles ==
    [ selectors : {NoSelectors, Scalar("a")},
      autoSelect : {NoAutoSelect, AutoSelectBoolean(TRUE),
                    AutoSelectObject(1 :> TRUE @@ 2 :> FALSE)},
      tabKeyContainerLevel : BOOLEAN,
      selectedClassName : {NoClassName, ClassName(Current)} ]

Keys == RecognizedKeys \cup {"Enter"}

\* Every key unshifted, and the container-level keys with Shift held
Events ==
    [key : Keys, shiftKey : {FALSE}]
        \cup [key : {"Tab", "ArrowLeft", "ArrowRight"}, shiftKey : {TRUE}]

NoEvent == [key |-> "none", shiftKey |-> FALSE]

\* What document.activeElement can be: a node that takes focus, or the body
FocusTargets == { h \in AllElements : DomNode(h).tag # "div" } \cup {Body}

-----------------------------------------------------------------------------
(* The hook's renders and effects *)

\* The function made by one evaluation of the useCallback argument: what it
\* captured, and which of two successive function objects it is
Closure(id, cs, index, opts) ==
    [id |-> id, containers |-> cs, containerIndex |-> index, options |-> opts]

\* options left undefined: every field takes its default (lines 223-228)
DefaultOptions ==
    [selectors |-> NoSelectors, autoSelect |-> NoAutoSelect,
     tabKeyContainerLevel |-> FALSE, selectedClassName |-> NoClassName]

NoHandler == Closure(1, <<>>, 0, DefaultOptions)

\* The container argument: one Container, or an array of them; each stands
\* for what parseContainer makes of it
ContainerArguments ==
    [array : {FALSE}, refs : { <<c>> : c \in NodeNames \cup {Null} }]
        \cup
    [array : {TRUE},
     refs : { cs \in UNION { [1..n -> NodeNames \cup {Null}] : n \in 1..MaxContainers } :
                \A i, j \in 1..Len(cs) : (i # j /\ cs[i] = cs[j]) => cs[i] = Null }]

\* The first effect (lines 265-275) run on the containers array cs
bindContainers(container, cs) ==
    IF container.array
    THEN IF container.refs[1] # Null /\ Len(cs) = 0
         THEN cs \o container.refs
         ELSE cs
    ELSE IF Len(cs) = 0 THEN Append(cs, container.refs[1]) ELSE cs

\* useCallback that does not list containerIndex among its dependencies
useCallbackOptionsOnly(previous, fresh, indexChanged, optionsChanged) ==
    IF optionsChanged THEN fresh ELSE previous

\* useCallback(fn, [containerIndex, options]) (lines 279-290)
useCallback(previous, fresh, indexChanged, optionsChanged) ==
    IF indexChanged \/ optionsChanged THEN fresh ELSE previous

addEventListener(listeners, handler) == Append(listeners, handler)

removeEventListener(listeners, handler) ==
    LET found == { i \in 1..Len(listeners) : listeners[i] = handler }
    IN  IF found = {} THEN listeners
        ELSE LET first == CHOOSE i \in found : \A j \in found : i <= j
             IN  SubSeq(listeners, 1, first - 1)
                     \o SubSeq(listeners, first + 1, Len(listeners))

\* The second effect without its cleanup
subscribeKeepingOld(listeners, previous, eventHandler, mount) ==
    IF mount \/ eventHandler.id # previous.id
    THEN addEventListener(listeners, eventHandler)
    ELSE listeners

\* The second effect (lines 292-297): when eventHandler is a new function the
\* cleanup of the previous run removes the old one, then the new one is added
subscribe(listeners, previous, eventHandler, mount) ==
    IF mount THEN addEventListener(listeners, eventHandler)
    ELSE IF eventHandler.id = previous.id THEN listeners
    ELSE addEventListener(removeEventListener(listeners, previous), eventHandler)

\* One render of useKeyboardNavigation followed by its effects: the render's
\* containers array after the first effect, and the component after the second
useKeyboardNavigation(h, index, opts, mount, indexChanged, optionsChanged) ==
    LET cs == IF mount \/ ~h.stable
              THEN bindContainers(h.container, <<>>)
              ELSE <<>>
        eventHandler ==
            useCallback(h.eventHandler,
                        Closure(1 - h.eventHandler.id, cs, index, opts),
                        mount \/ indexChanged, mount \/ optionsChanged)
    IN  [containers |-> cs,
         hook |-> [h EXCEPT
                     !.mounted = TRUE,
                     !.eventHandler = eventHandler,
                     !.listeners = subscribe(h.listeners, h.eventHandler,
                                             eventHandler, mount)]]

\* No component: handleEvents is handed its arguments directly
NoHook ==
    [mounted |-> FALSE, stable |-> FALSE,
     container |-> [array |-> TRUE, refs |-> <<>>],
     eventHandler |-> NoHandler, listeners |-> <<>>]

-----------------------------------------------------------------------------
(* The state machine *)

Init ==
    /\ hook = NoHook
    /\ containers \in ContainerSequences
    /\ options \in OptionBundles
    /\ containerIndex = 0
    /\ activeElement = Body
    /\ event = NoEvent
    /\ before = [containerIndex |-> 0, activeElement |-> Body]
    /\ effects = <<>>
    /\ setCalls = <<>>
    /\ route = "idle"

\* The elements focused by a sequence of effects, in order
Focused(effectSeq) == SelectSeq(effectSeq, LAMBDA e : e.op = "focus")

\* A keydown event reaches the listener: handleEvents runs to completion,
\* then React applies the queued updaters to the state.
KeyDown(ev) ==
    LET r == handleEvents(ev, containers, containerIndex, options, activeElement)
        moved == Focused(r.effects)
    IN  /\ event' = ev
        /\ before' = [containerIndex |-> containerIndex,
                      activeElement |-> activeElement]
        /\ effects' = r.effects
        /\ setCalls' = r.setCalls
        /\ route' = r.route
        /\ containerIndex' =
               IF r.setCalls = <<>> THEN containerIndex
               ELSE setContainerIndex(r.setCalls[1], containerIndex)
        /\ activeElement' =
               IF moved = <<>> THEN activeElement ELSE moved[Len(moved)].element
        /\ UNCHANGED <<containers, options, hook>>

\* The host moves focus by other means (pointer, script); the record of the
\* last dispatch is dropped.
HostFocus(target) ==
    /\ target # activeElement \/ route # "idle"
    /\ activeElement' = target
    /\ event' = NoEvent
    /\ before' = [containerIndex |-> containerIndex, activeElement |-> target]
    /\ effects' = <<>>
    /\ setCalls' = <<>>
    /\ route' = "idle"
    /\ UNCHANGED <<containers, options, containerIndex, hook>>

Next ==
    \/ \E ev \in Events : KeyDown(ev)
    \/ \E target \in FocusTargets : HostFocus(target)

Spec == Init /\ [][Next]_vars

-----------------------------------------------------------------------------
(* The state machine of the hook *)

\* The options a component passes in this state machine
HookOptionBundles ==
    { o \in OptionBundles :
        /\ o.selectors = NoSelectors
        /\ o.autoSelect = NoAutoSelect
        /\ o.selectedClassName = NoClassName }

\* Before the component mounts.  stable tells whether the container argument
\* is the same object on every render (an id, a ref, a memoized array) or a
\* new one (an array literal).
HookInit ==
    /\ containers = <<>>
    /\ options \in HookOptionBundles
    /\ containerIndex = 0
    /\ activeElement = Body
    /\ event = NoEvent
    /\ before = [containerIndex |-> 0, activeElement |-> Body]
    /\ effects = <<>>
    /\ setCalls = <<>>
    /\ route = "idle"
    /\ \E container \in ContainerArguments, stable \in BOOLEAN :
           hook = [NoHook EXCEPT !.container = container, !.stable = stable]

\* No dispatch is on record after a render that no event caused
Idle(index) ==
    /\ event' = NoEvent
    /\ before' = [containerIndex |-> index, activeElement |-> activeElement]
    /\ effects' = <<>>
    /\ setCalls' = <<>>
    /\ route' = "idle"

\* The first render: useState(0), both effects run
Mount ==
    /\ ~hook.mounted
    /\ LET r == useKeyboardNavigation(hook, 0, options, TRUE, FALSE, FALSE)
       IN  /\ containers' = r.containers
           /\ hook' = r.hook
    /\ containerIndex' = 0
    /\ Idle(0)
    /\ UNCHANGED <<options, activeElement>>

\* The parent renders the component again; newOptions tells whether it
\* passes a new options object (an object literal) or the one it passed before
Rerender(opts, newOptions) ==
    /\ hook.mounted
    /\ newOptions \/ opts = options
    /\ LET r == useKeyboardNavigation(hook, containerIndex, opts, FALSE, FALSE,
                                      newOptions)
       IN  /\ containers' = r.containers
           /\ hook' = r.hook
    /\ options' = opts
    /\ Idle(containerIndex)
    /\ UNCHANGED <<containerIndex, activeElement>>

\* The component goes away: the cleanup of the second effect runs
Unmount ==
    /\ hook.mounted
    /\ hook' = [hook EXCEPT
                  !.mounted = FALSE,
                  !.listeners = removeEventListener(hook.listeners, hook.eventHandler)]
    /\ containers' = <<>>
    /\ Idle(containerIndex)
    /\ UNCHANGED <<options, containerIndex, activeElement>>

\* window calls the keydown listeners in turn, each with what it captured
RECURSIVE deliver(_, _, _, _)
deliver(listeners, ev, active, done) ==
    IF listeners = <<>> THEN done
    ELSE LET l == Head(listeners)
             r == handleEvents(ev, l.containers, l.containerIndex, l.options, active)
             moved == Focused(r.effects)
         IN  deliver(Tail(listeners), ev,
                     IF moved = <<>> THEN active ELSE moved[Len(moved)].element,
                     Outcome(r.route, done.effects \o r.effects,
                             done.setCalls \o r.setCalls))

\* React applies the queued updaters in the order of the calls
RECURSIVE applyUpdates(_, _)
applyUpdates(calls, prev) ==
    IF calls = <<>> THEN prev
    ELSE applyUpdates(Tail(calls), setContainerIndex(Head(calls), prev))

\* A keydown event on window: the listeners run, React applies the updates
\* and, when the state changed, renders the component and runs its effects
HookKeyDown(ev) ==
    /\ hook.listeners # <<>>
    /\ LET r == deliver(hook.listeners, ev, activeElement, Outcome("idle", <<>>, <<>>))
           moved == Focused(r.effects)
           index == IF hook.mounted THEN applyUpdates(r.setCalls, containerIndex)
                    ELSE containerIndex
           next == IF index # containerIndex
                   THEN useKeyboardNavigation(hook, index, options, FALSE, TRUE, FALSE)
                   ELSE [containers |-> containers, hook |-> hook]
       IN  /\ event' = ev
           /\ before' = [containerIndex |-> containerIndex,
                         activeElement |-> activeElement]
           /\ effects' = r.effects
           /\ setCalls' = r.setCalls
           /\ route' = r.route
           /\ containerIndex' = index
           /\ activeElement' =
                  IF moved = <<>> THEN activeElement ELSE moved[Len(moved)].element
           /\ containers' = next.containers
           /\ hook' = next.hook
           /\ UNCHANGED options

HookNext ==
    \/ Mount
    \/ \E opts \in HookOptionBundles, newOptions \in BOOLEAN : Rerender(opts, newOptions)
    \/ Unmount
    \/ \E ev \in Events : HookKeyDown(ev)

HookSpec == HookInit /\ [][HookNext]_vars

-----------------------------------------------------------------------------
(* Vocabulary of the properties: the last dispatch, read from the state *)

Dispatched == route # "idle"

Prevented == \E i \in 1..Len(effects) : effects[i].op = "preventDefault"

Clicked == { effects[i].element : i \in { k \in 1..Len(effects) : effects[k].op = "click" } }

FocusedNow == { effects[i].element : i \in { k \in 1..Len(effects) : effects[k].op = "focus" } }

\* Nothing happened: no host effect, no state update, focus and index as they were
NoOp ==
    /\ effects = <<>>
    /\ setCalls = <<>>
    /\ containerIndex = before.containerIndex
    /\ activeElement = before.activeElement

PreviousInput == (event.key = "Tab" /\ event.shiftKey) \/ event.key = "ArrowLeft"

NextInput == (event.key = "Tab" /\ ~event.shiftKey) \/ event.key = "ArrowRight"

\* The query expression in force: the configured selectors, else every known kind
QueryExpression ==
    IF options.selectors.kind = "undefined" THEN allSelectors
    ELSE options.selectors.tokens

\* The elements of a configured container under the query expression
ElementsOf(index) ==
    IF index \in 0..(Len(containers) - 1) /\ containers[index + 1] \in NodeNames
    THEN getFocusableElements(containers[index + 1], QueryExpression)
    ELSE <<>>

\* The active container's element sequence when the event was dispatched
ActiveElements == ElementsOf(before.containerIndex)

InActive == \E i \in 1..Len(ActiveElements) : ActiveElements[i] = before.activeElement

\* 0-based position of the focused element in the active container's sequence
Position == (CHOOSE i \in 1..Len(ActiveElements) :
                 ActiveElements[i] = before.activeElement) - 1

\* The container a switch aims at, and what it yields (with the fallback query)
CandidateIndex ==
    IF PreviousInput THEN before.containerIndex - 1 ELSE before.containerIndex + 1

CandidateExists ==
    /\ CandidateIndex \in 0..(Len(containers) - 1)
    /\ containers[CandidateIndex + 1] \in NodeNames

CandidateElements ==
    IF ~CandidateExists THEN <<>>
    ELSE IF ElementsOf(CandidateIndex) # <<>> THEN ElementsOf(CandidateIndex)
    ELSE getFocusableElements(containers[CandidateIndex + 1], allSelectors)

\* An input that asks for a container switch
SwitchInput ==
    /\ Dispatched
    /\ Len(containers) > 1
    /\ \/ event.key \in {"ArrowLeft", "ArrowRight"}
       \/ event.key = "Tab" /\ options.tabKeyContainerLevel

MarkerName ==
    IF options.selectedClassName.defined THEN options.selectedClassName.value
    ELSE SELECTED_CLASSNAME

\* An element carries the marker when the marker is one of its classes
HasMarker(h, name) == name \in ClassList(DomNode(h).className)

\* Selection Memory as specified: first marked element, else first, else nothing
MarkedOrFirst(elements, name) ==
    LET marked == { i \in 1..Len(elements) : HasMarker(elements[i], name) }
    IN  IF marked # {} THEN elements[CHOOSE i \in marked : \A j \in marked : i <= j]
        ELSE IF elements # <<>> THEN elements[1]
        ELSE Undefined

-----------------------------------------------------------------------------
(* Properties *)

\* C1: from index 0 and a non-empty container sequence, after any sequence of
\* keyboard events the Container Index satisfies 0 <= index < length(containers).
IndexInRange ==
    Len(containers) > 0 => containerIndex \in 0..(Len(containers) - 1)

\* C1 witness: a switch has brought the index to the last of three or more containers
IndexReachedLast ==
    /\ Len(containers) >= 3
    /\ setCalls # <<>>
    /\ containerIndex = Len(containers) - 1

\* C2: at index 0 a "previous" input, and at the last index a "next" input, is a
\* no-op: the index stays, no element is focused, the default is not suppressed.
BoundaryClamp ==
    /\ (Dispatched /\ PreviousInput /\ before.containerIndex = 0) => NoOp
    /\ (Dispatched /\ NextInput /\ before.containerIndex = Len(containers) - 1) => NoOp

\* C2 witness: a "next" switch was attempted at the last index, reached by switching
NextAtLastContainer ==
    /\ route = "switch"
    /\ NextInput
    /\ before.containerIndex = Len(containers) - 1
    /\ before.containerIndex > 0

\* C3: with the focused element at position p of the active container's n
\* elements, ArrowDown focuses the element at p+1 if p+1 < n and ArrowUp the one
\* at p-1 if p > 0; at either boundary focus does not change; the index never does.
NeighbourRule ==
    (Dispatched /\ event.key \in {"ArrowUp", "ArrowDown"} /\ InActive) =>
        LET target == IF event.key = "ArrowDown" THEN Position + 1 ELSE Position - 1
        IN  /\ containerIndex = before.containerIndex
            /\ setCalls = <<>>
            /\ IF target \in 0..(Len(ActiveElements) - 1)
               THEN /\ FocusedNow = {ActiveElements[target + 1]}
                    /\ activeElement = ActiveElements[target + 1]
               ELSE /\ FocusedNow = {}
                    /\ activeElement = before.activeElement

\* C3 witness: ArrowDown moved focus from an element that is not the first
MovedDownFromInside ==
    /\ route = "updown"
    /\ event.key = "ArrowDown"
    /\ InActive
    /\ Position > 0
    /\ FocusedNow # {}

\* C4 as stated: with the focused element outside the active container's
\* sequence, ArrowUp and ArrowDown are no-ops.
NotFoundIsNoOp ==
    (Dispatched /\ event.key \in {"ArrowUp", "ArrowDown"} /\ ~InActive) => NoOp

\* C4 amended: with the focused element outside the active container's sequence,
\* ArrowUp is a no-op, and ArrowDown focuses the first element of the sequence
\* and suppresses the default (a no-op only when the sequence is empty).
NotFoundEntersAtFirst ==
    (Dispatched /\ event.key \in {"ArrowUp", "ArrowDown"} /\ ~InActive) =>
        IF event.key = "ArrowDown" /\ ActiveElements # <<>>
        THEN /\ FocusedNow = {ActiveElements[1]}
             /\ activeElement = ActiveElements[1]
             /\ Prevented
             /\ containerIndex = before.containerIndex
        ELSE NoOp

\* C4 witness: ArrowDown with focus on the body focused the first element
EnteredFromBody ==
    /\ route = "updown"
    /\ event.key = "ArrowDown"
    /\ before.activeElement = Body
    /\ FocusedNow # {}

\* C5 as stated: with more than one container, when the adjacent candidate
\* exists and yields an element, the default is suppressed, the index moves by
\* exactly one in the input's direction and focus moves to the marked-or-first
\* element of the candidate.
SwitchFocusesMarkedOrFirst ==
    (SwitchInput /\ CandidateElements # <<>>) =>
        /\ Prevented
        /\ containerIndex = CandidateIndex
        /\ FocusedNow = {MarkedOrFirst(CandidateElements, MarkerName)}

\* C6 as stated: the element chosen on a switch is the first one whose marker
\* set includes the marker name, else the first in document order, else none.
SelectionMemory ==
    route = "switch" =>
        FocusedNow = {MarkedOrFirst(CandidateElements, MarkerName)} \ {Undefined}

\* C7: with autoSelect set to boolean true, every focus move made through the
\* Focus Actuator also clicks the newly focused element.
AutoSelectTrueClicks ==
    (route = "updown" /\ options.autoSelect = AutoSelectBoolean(TRUE)) =>
        Clicked = FocusedNow

\* C7 witness: an intra-container move under autoSelect: true
MovedUnderAutoSelectTrue ==
    /\ route = "updown"
    /\ options.autoSelect = AutoSelectBoolean(TRUE)
    /\ FocusedNow # {}

\* C8: with a per-index autoSelect mapping, a focus move made while the
\* Container Index is i clicks the element exactly when the entry at i is true.
AutoSelectPerIndex ==
    (route = "updown" /\ options.autoSelect.kind = "object" /\ FocusedNow # {}) =>
        LET map == options.autoSelect.map
            i == before.containerIndex
        IN  IF i \in DOMAIN map /\ map[i] THEN Clicked = FocusedNow ELSE Clicked = {}

\* C8 witness: a move at index 1 under {1: true} clicked the element
ClickedAtIndexOne ==
    /\ route = "updown"
    /\ options.autoSelect.kind = "object"
    /\ before.containerIndex = 1
    /\ Clicked # {}

\* C9: a container switch never activates an element, whatever the autoSelect policy.
SwitchNeverClicks == route = "switch" => Clicked = {}

\* C9 witness: a switch moved focus under autoSelect: true
SwitchedUnderAutoSelectTrue ==
    /\ route = "switch"
    /\ options.autoSelect = AutoSelectBoolean(TRUE)
    /\ FocusedNow # {}

\* C10: if the container sequence is empty or the key is none of ArrowUp,
\* ArrowDown, Tab, ArrowLeft, ArrowRight, the dispatch has no effect at all.
DispatchGuards ==
    (/\ Dispatched
     /\ \/ Len(containers) = 0
        \/ event.key \notin {"ArrowUp", "ArrowDown", "Tab", "ArrowLeft", "ArrowRight"})
        => NoOp

\* C10 witness: an unrecognized key was dispatched with containers configured
IgnoredKey ==
    /\ Dispatched
    /\ event.key = "Enter"
    /\ Len(containers) > 1
    /\ before.containerIndex > 0

\* C11: the Container Index changes only on a successful container switch: an
\* event routed to the Intra-Container Navigator, or a switch whose candidate
\* is absent or yields no element, leaves it unchanged.
IndexChangesOnlyOnSwitch ==
    /\ route = "updown" => (setCalls = <<>> /\ containerIndex = before.containerIndex)
    /\ (route = "switch" /\ CandidateElements = <<>>) =>
           (setCalls = <<>> /\ containerIndex = before.containerIndex)
    /\ containerIndex # before.containerIndex =>
           (route = "switch" /\ CandidateExists /\ CandidateElements # <<>>)

\* C11 witness: a switch was attempted into a container that exists but yields
\* no focusable element
SwitchIntoBarrenContainer ==
    /\ route = "switch"
    /\ CandidateExists
    /\ CandidateElements = <<>>

\* C12 as stated: every lookup that can fail while a recognized key is handled
\* degrades to a no-op; handleEvents never raises an error.
NeverThrows == route # "throw"

\* The active container resolved to an element of the document
ActiveResolved ==
    /\ before.containerIndex \in 0..(Len(containers) - 1)
    /\ containers[before.containerIndex + 1] \in NodeNames

\* A recognized key met a non-empty container sequence
Routed == Dispatched /\ Len(containers) > 0 /\ event.key \in RecognizedKeys

\* C13 as stated: a recognized key goes to the Inter-Container Navigator exactly
\* when there is more than one container and the key is Tab with the previous
\* modifier under tabKeyContainerLevel, or ArrowLeft/ArrowRight; every other
\* recognized key goes to the Intra-Container Navigator.
RoutingWithShiftedTab ==
    (Routed /\ ActiveResolved) =>
        LET switch ==
                /\ Len(containers) > 1
                /\ \/ event.key = "Tab" /\ event.shiftKey /\ options.tabKeyContainerLevel
                   \/ event.key \in {"ArrowLeft", "ArrowRight"}
        IN  route = IF switch THEN "switch" ELSE "updown"

\* C13 amended: the same with any Tab, shifted or not, under tabKeyContainerLevel;
\* and with the active container unresolved the handler throws before it routes.
RoutingWithAnyTab ==
    Routed =>
        LET switch ==
                /\ Len(containers) > 1
                /\ \/ event.key = "Tab" /\ options.tabKeyContainerLevel
                   \/ event.key \in {"ArrowLeft", "ArrowRight"}
        IN  route = IF ~ActiveResolved THEN "throw"
                    ELSE IF switch THEN "switch" ELSE "updown"

\* C13 witness: an unshifted Tab under tabKeyContainerLevel switched containers
PlainTabSwitched ==
    /\ route = "switch"
    /\ event = [key |-> "Tab", shiftKey |-> FALSE]
    /\ containerIndex = before.containerIndex + 1

\* C14: a recognized key that reaches the intra-container path and is neither
\* ArrowUp nor ArrowDown is a silent no-op; these are ArrowLeft/ArrowRight with
\* one container and Tab with tabKeyContainerLevel off or one container.
OtherKeysAreSilent ==
    (route = "updown" /\ event.key \notin {"ArrowUp", "ArrowDown"}) =>
        /\ NoOp
        /\ \/ event.key \in {"ArrowLeft", "ArrowRight"} /\ Len(containers) = 1
           \/ /\ event.key = "Tab"
              /\ ~options.tabKeyContainerLevel \/ Len(containers) = 1

\* C14 witness: Tab reached the intra-container path while focus was inside
TabReachedIntraPath ==
    /\ route = "updown"
    /\ event.key = "Tab"
    /\ InActive
    /\ Len(containers) > 1

\* The candidate's elements under the query for every known kind
FallbackElements ==
    IF CandidateExists
    THEN getFocusableElements(containers[CandidateIndex + 1], allSelectors)
    ELSE <<>>

\* C15: when the candidate has no element under the configured expression it
\* is queried again for every known kind and the switch proceeds on that
\* result; with none there either the switch is a no-op, and no switch ever
\* goes further than the adjacent container.
SelectorFallback ==
    /\ (SwitchInput /\ CandidateExists /\ ElementsOf(CandidateIndex) = <<>>) =>
           IF FallbackElements # <<>>
           THEN /\ Prevented
                /\ containerIndex = CandidateIndex
                /\ FocusedNow # {}
                /\ \A h \in FocusedNow :
                       \E i \in 1..Len(FallbackElements) : FallbackElements[i] = h
           ELSE NoOp
    /\ route = "switch" => containerIndex \in {before.containerIndex, CandidateIndex}

\* C15 witness: a switch succeeded on the fallback query alone
SwitchedOnFallback ==
    /\ route = "switch"
    /\ CandidateExists
    /\ ElementsOf(CandidateIndex) = <<>>
    /\ FocusedNow # {}

\* C16 as stated: the Focus Actuator focuses, then suppresses the default, and
\* only then activates.
SuppressBeforeActivate ==
    route = "updown" =>
        \A i, j \in 1..Len(effects) :
            (effects[i].op = "preventDefault" /\ effects[j].op = "click") => i < j

\* C16 amended: the Focus Actuator focuses, then activates if the policy says
\* so, and suppresses the default last; suppression occurs whenever focus
\* happened, whether or not activation did.
ActivateBeforeSuppress ==
    /\ (route = "updown" /\ effects # <<>>) =>
           /\ effects[1].op = "focus"
           /\ effects[Len(effects)].op = "preventDefault"
           /\ \A i \in 2..(Len(effects) - 1) : effects[i] = Effect("click", effects[1].element)
           /\ Len(effects) \in {2, 3}
    /\ FocusedNow # {} => Prevented

\* C16 witness: a focus move that also activated
FocusedAndActivated ==
    /\ route = "updown"
    /\ Clicked # {}

\* C20: every focus move of the navigator lands on an element of the container
\* at the Container Index in effect after the event.
FocusAgreesWithIndex ==
    \A h \in FocusedNow :
        /\ containerIndex \in 0..(Len(containers) - 1)
        /\ h.node = containers[containerIndex + 1]

\* C20 witness: a switch back to the previous container moved focus
SwitchedBack ==
    /\ route = "switch"
    /\ PreviousInput
    /\ FocusedNow # {}

-----------------------------------------------------------------------------
(* Properties of the hook *)

\* What the container argument resolves to
Resolved == bindContainers(hook.container, <<>>)

\* C17: the Container Index is written at most once per event, the subscribed
\* handler holds the index the previous event left, and the index moves only
\* when that index has a neighbour on the side of the move: after a move to
\* the last container a further "next" event does not increment it again.
NoStaleIndex ==
    /\ Len(setCalls) <= 1
    /\ hook.mounted =>
           \A i \in 1..Len(hook.listeners) :
               hook.listeners[i].containerIndex = containerIndex
    /\ setCalls = << TRUE >> =>
           /\ before.containerIndex < Len(Resolved) - 1
           /\ containerIndex = before.containerIndex + 1
    /\ setCalls = << FALSE >> =>
           /\ before.containerIndex > 0
           /\ containerIndex = before.containerIndex - 1

\* C17 witness: a "next" event arrived with the index on the last container,
\* reached by a switch, and wrote nothing
NextAfterLastSwitch ==
    /\ hook.mounted
    /\ route = "switch"
    /\ NextInput
    /\ Len(Resolved) > 1
    /\ before.containerIndex = Len(Resolved) - 1
    /\ containerIndex = before.containerIndex
    /\ setCalls = <<>>

\* C18: exactly one keydown listener is on window while the component is
\* mounted, the handler of its last render, and none after it unmounted.
OneSubscription ==
    IF hook.mounted
    THEN hook.listeners = << hook.eventHandler >>
    ELSE hook.listeners = <<>>

\* C18 witness: the component unmounted after a render that changed the handler
UnmountedAfterNewHandler ==
    /\ ~hook.mounted
    /\ hook.eventHandler.id = 1
    /\ hook.eventHandler # NoHandler

\* C19 as stated: with every container resolved, the subscribed handler passes
\* handleEvents the full resolved container sequence after any render.
HandlerKeepsContainers ==
    (/\ hook.mounted
     /\ \A i \in 1..Len(hook.container.refs) : hook.container.refs[i] \in NodeNames) =>
        \A i \in 1..Len(hook.listeners) :
            hook.listeners[i].containers = hook.container.refs

====
